---- MODULE Spec2Model ----
(***************************************************************************)
(* The race detector API of the runtime (src/pkg/runtime/race.c): the      *)
(* bridge between instrumented code and the detector engine.               *)
(*                                                                         *)
(* A carrier thread (M) runs a bridge entry point in steps: the entry      *)
(* point is called (its guards are evaluated, m->racecall is set, the      *)
(* detector calls it will make are fixed), each detector call is made and  *)
(* returns, and the entry point returns (m->racecall is cleared).  The     *)
(* detector engine records the calls it receives.                          *)
(***************************************************************************)
EXTENDS Integers, Sequences, FiniteSets

(* ------------------------------ bounds -------------------------------- *)
ArenaCap == 2        \* the heap arena can grow to arena_start + ArenaCap
MaxNest == 2         \* calls of RaceDisable, and of RaceEnable, in a run
MaxDepth == 2        \* nested bridge frames per thread (reentrant detector)
MaxCalls == 4        \* detector calls under one outermost entry point (reentrant detector)

(* --------------------------- address space ---------------------------- *)
\* One flat uintptr space holds code and data.
lessstack == 1                       \* (uintptr)runtime.lessstack
TextA == 2                           \* a code address in user text
TextB == 3                           \* another code address in user text
noptrdata == 4                       \* start of the static data segment
mheap == 5                           \* &runtime.mheap, inside the segment
mheapSize == 1                       \* sizeof(runtime.mheap)
enoptrbss == 7                       \* end of the static data segment
arena_start == 8                     \* runtime.mheap.arena_start
ArenaInit == 1                       \* arena bytes in use at start
StackAddr == arena_start + ArenaCap  \* an address on a task's stack
Frontier == arena_start + ArenaInit  \* inside the arena only once it grew

Threads == {1, 2}                    \* carrier threads (M)
Tasks == {1, 2}                      \* user tasks (G), by internal identifier
g0 == 0                              \* the scheduler stack of a thread
nil == 0                             \* m->curg == nil

\* The inputs the instrumented program hands to the entry points.
AccessAddrs == {mheap, arena_start, Frontier, StackAddr}
RangeAddrs == {arena_start, StackAddr}
RangeSizes == {1, 2}
CallerPCs == {0, lessstack, TextA, arena_start}
EnterPCs == {lessstack, TextA, arena_start, Frontier}
ReturnPCs == {lessstack, TextA}
SyncAddrs == {arena_start, StackAddr}
AllocAddrs == {arena_start, StackAddr}
UnwoundPCs == {TextB}

VARIABLES
    phase,       \* "boot" before raceinit returned, "run", "fini" after racefini
    arena_used,  \* runtime.mheap.arena_used
    curg,        \* m->curg: the user task of each thread, or nil
    racecall,    \* m->racecall
    raceignore,  \* g->raceignore of each task
    stack,       \* the bridge frames of each thread, innermost last
    calls,       \* the detector calls the thread's outermost entry point made
    nDis,        \* RaceDisable calls each task has made
    nEn          \* RaceEnable calls each task has made

vars == <<phase, arena_used, curg, racecall, raceignore, stack, calls, nDis, nEn>>

(* ---------------------------- the detector ---------------------------- *)
\* The calls of the detector engine (race.c lines 13-29), as events.
EvInitialize == [fn |-> "Initialize"]
EvFinalize == [fn |-> "Finalize"]
EvMapShadow(addr, size) == [fn |-> "MapShadow", addr |-> addr, size |-> size]
EvFinalizerGoroutine(id) == [fn |-> "FinalizerGoroutine", goid |-> id]
EvRead(id, addr, pc) == [fn |-> "Read", goid |-> id, addr |-> addr, pc |-> pc]
EvWrite(id, addr, pc) == [fn |-> "Write", goid |-> id, addr |-> addr, pc |-> pc]
EvReadRange(id, addr, sz, step, pc) ==
    [fn |-> "ReadRange", goid |-> id, addr |-> addr, sz |-> sz, step |-> step, pc |-> pc]
EvWriteRange(id, addr, sz, step, pc) ==
    [fn |-> "WriteRange", goid |-> id, addr |-> addr, sz |-> sz, step |-> step, pc |-> pc]
EvFuncEnter(id, pc) == [fn |-> "FuncEnter", goid |-> id, pc |-> pc]
EvFuncExit(id) == [fn |-> "FuncExit", goid |-> id]
EvMalloc(id, p, sz, pc) == [fn |-> "Malloc", goid |-> id, addr |-> p, sz |-> sz, pc |-> pc]
EvFree(p) == [fn |-> "Free", addr |-> p]
EvGoStart(pgoid, chgoid, pc) == [fn |-> "GoStart", goid |-> pgoid, child |-> chgoid, pc |-> pc]
EvGoEnd(id) == [fn |-> "GoEnd", goid |-> id]
EvAcquire(id, addr) == [fn |-> "Acquire", goid |-> id, addr |-> addr]
EvRelease(id, addr) == [fn |-> "Release", goid |-> id, addr |-> addr]
EvReleaseMerge(id, addr) == [fn |-> "ReleaseMerge", goid |-> id, addr |-> addr]

(* ------------------------------ helpers ------------------------------- *)
\* g of the code running on thread m (g0 when the thread has no user task),
\* and the goid field of a g.
G(m) == curg[m]
goid(gp) == gp

Idle(m) == stack[m] = <<>>
Top(m) == stack[m][Len(stack[m])]
\* Instrumented code runs on a user task.
UserG(m) == curg[m] # nil
\* One thread at a time is inside the bridge: an entry point neither blocks
\* nor yields, and the scheduler hands the processor over between calls.
Running(m) == phase = "run" /\ \A o \in Threads : Idle(o)

\* onstack with the watermark itself counted as part of the arena.
onstackInclusive(argp, used) ==
    IF argp >= noptrdata /\ argp < enoptrbss THEN FALSE
    ELSE IF argp >= arena_start /\ argp <= used THEN FALSE
    ELSE TRUE

\* onstack (race.c 346-356), with the value read from mheap.arena_used.
onstackAt(argp, used) ==
    IF argp >= noptrdata /\ argp < enoptrbss THEN FALSE
    ELSE IF argp >= arena_start /\ argp < used THEN FALSE
    ELSE TRUE

\* onstack comparing with a watermark the arena has not reached yet.
onstackAhead(argp) == onstackAt(argp, arena_used + 1)

onstack(argp) == onstackAt(argp, arena_used)

\* The caller test without the test for a closure trampoline on the heap.
needcallersNoHeap(pc) == pc = lessstack

\* The caller test of racefuncenter, memoryaccess and rangeaccess
\* (race.c 103-104, 166-167, 202-203).
needcallers(pc) ==
    pc = lessstack \/ (pc >= arena_start /\ pc < arena_used)

\* The program counter after the test: runtime.callers stored w over it.
resolvepc(pc, w) == IF needcallers(pc) THEN w ELSE pc

\* A bridge frame: the entry point, the g that called it, its arguments, the
\* watermark it read, the detector calls still to make, whether one is in
\* flight, and whether its path sets m->racecall and clears it again.
Frame(op, gp, args, todo, set, clear) ==
    [op |-> op, g |-> gp, args |-> args, used |-> arena_used,
     todo |-> todo, infl |-> FALSE, set |-> set, clear |-> clear]

\* A path of an entry point that makes the detector calls todo between
\* m->racecall = true and m->racecall = false.
Forward(op, gp, args, todo) == Frame(op, gp, args, todo, TRUE, TRUE)

\* A path of an entry point that returns without touching m->racecall.
Skip(op, gp, args) == Frame(op, gp, args, <<>>, FALSE, FALSE)

\* Entering an entry point with one flag for all the threads.
EnterShared(m, fr) ==
    /\ Len(stack[m]) < MaxDepth
    /\ stack' = [stack EXCEPT ![m] = Append(@, fr)]
    /\ racecall' = IF fr.set THEN [o \in Threads |-> TRUE] ELSE racecall

\* Entering an entry point on thread m.
Enter(m, fr) ==
    /\ Len(stack[m]) < MaxDepth
    /\ stack' = [stack EXCEPT ![m] = Append(@, fr)]
    /\ racecall' = IF fr.set THEN [racecall EXCEPT ![m] = TRUE] ELSE racecall

\* The state the entry points other than RaceEnable and RaceDisable leave alone.
Frm == UNCHANGED <<phase, arena_used, curg, raceignore, calls, nDis, nEn>>

(* --------------------------- entry points ----------------------------- *)
\* Each body is the code of the entry point, run by g = gp on thread m; the
\* actions below add who may call it and with which arguments.

\* The MapShadow calls of raceinit: the static data before runtime.mheap and
\* the static data after it.
raceinitMaps ==
    LET sz1 == mheap - noptrdata
        sz2 == enoptrbss - (mheap + mheapSize)
    IN (IF sz1 # 0 THEN <<EvMapShadow(noptrdata, sz1)>> ELSE <<>>)
           \o (IF sz2 # 0 THEN <<EvMapShadow(mheap + mheapSize, sz2)>> ELSE <<>>)

raceinitBody(m) ==
    Enter(m, Forward("raceinit", G(m), [none |-> 0], <<EvInitialize>> \o raceinitMaps))

racefiniBody(m) ==
    Enter(m, Forward("racefini", G(m), [none |-> 0], <<EvFinalize>>))

racemapshadowBody(m, addr, size) ==
    Enter(m, Forward("racemapshadow", G(m), [addr |-> addr, size |-> size],
               <<EvMapShadow(addr, size)>>))

\* racewrite skipped while the ignore-depth of the task is not zero.
racewriteBodyIgnoring(m, addr, cpc) ==
    IF ~onstack(addr) /\ raceignore[G(m)] = 0
    THEN Enter(m, Forward("racewrite", G(m), [addr |-> addr, pc |-> cpc],
                   <<EvWrite(goid(G(m)) - 1, addr, cpc)>>))
    ELSE Enter(m, Skip("racewrite", G(m), [addr |-> addr, pc |-> cpc]))

racewriteBody(m, addr, cpc) ==
    IF ~onstack(addr)
    THEN Enter(m, Forward("racewrite", G(m), [addr |-> addr, pc |-> cpc],
                   <<EvWrite(goid(G(m)) - 1, addr, cpc)>>))
    ELSE Enter(m, Skip("racewrite", G(m), [addr |-> addr, pc |-> cpc]))

\* raceread forwarding the internal identifier as it is.
racereadBodyRawId(m, addr, cpc) ==
    IF ~onstack(addr)
    THEN Enter(m, Forward("raceread", G(m), [addr |-> addr, pc |-> cpc],
                   <<EvRead(goid(G(m)), addr, cpc)>>))
    ELSE Enter(m, Skip("raceread", G(m), [addr |-> addr, pc |-> cpc]))

racereadBody(m, addr, cpc) ==
    IF ~onstack(addr)
    THEN Enter(m, Forward("raceread", G(m), [addr |-> addr, pc |-> cpc],
                   <<EvRead(goid(G(m)) - 1, addr, cpc)>>))
    ELSE Enter(m, Skip("raceread", G(m), [addr |-> addr, pc |-> cpc]))

racefuncenterBody(m, pc, w) ==
    Enter(m, Forward("racefuncenter", G(m), [callpc |-> pc, w |-> w],
               <<EvFuncEnter(goid(G(m)) - 1, resolvepc(pc, w))>>))

racefuncexitBody(m) ==
    Enter(m, Forward("racefuncexit", G(m), [none |-> 0],
               <<EvFuncExit(goid(G(m)) - 1)>>))

\* racemalloc attributing the allocation to g.
racemallocBodyOfG(m, gp, p, sz, pc) ==
    IF curg[m] = nil
    THEN Enter(m, Skip("racemalloc", gp, [p |-> p, sz |-> sz, pc |-> pc]))
    ELSE Enter(m, Forward("racemalloc", gp, [p |-> p, sz |-> sz, pc |-> pc],
                   <<EvMalloc(goid(gp) - 1, p, sz, pc)>>))

\* racemalloc setting m->racecall before the test of m->curg.
racemallocBodyEarlySet(m, gp, p, sz, pc) ==
    IF curg[m] = nil
    THEN Enter(m, Frame("racemalloc", gp, [p |-> p, sz |-> sz, pc |-> pc], <<>>, TRUE, FALSE))
    ELSE Enter(m, Forward("racemalloc", gp, [p |-> p, sz |-> sz, pc |-> pc],
                   <<EvMalloc(goid(curg[m]) - 1, p, sz, pc)>>))

\* gp is g: the scheduler stack g0 when the allocation is made from it.
racemallocBody(m, gp, p, sz, pc) ==
    IF curg[m] = nil
    THEN Enter(m, Skip("racemalloc", gp, [p |-> p, sz |-> sz, pc |-> pc]))
    ELSE Enter(m, Forward("racemalloc", gp, [p |-> p, sz |-> sz, pc |-> pc],
                   <<EvMalloc(goid(curg[m]) - 1, p, sz, pc)>>))

\* racefree with the test of m->curg that racemalloc makes.
racefreeBodyChecked(m, gp, p) ==
    IF curg[m] = nil
    THEN Enter(m, Skip("racefree", gp, [p |-> p]))
    ELSE Enter(m, Forward("racefree", gp, [p |-> p], <<EvFree(p)>>))

racefreeBody(m, gp, p) ==
    Enter(m, Forward("racefree", gp, [p |-> p], <<EvFree(p)>>))

\* racegostart forwarding the identifier of the new task as it is.
racegostartBodyRawChild(m, chgoid, pc) ==
    Enter(m, Forward("racegostart", G(m), [goid |-> chgoid, pc |-> pc],
               <<EvGoStart(goid(G(m)) - 1, chgoid, pc)>>))

racegostartBody(m, chgoid, pc) ==
    Enter(m, Forward("racegostart", G(m), [goid |-> chgoid, pc |-> pc],
               <<EvGoStart(goid(G(m)) - 1, chgoid - 1, pc)>>))

racegoendBody(m, id) ==
    Enter(m, Forward("racegoend", G(m), [goid |-> id], <<EvGoEnd(id - 1)>>))

\* memoryaccess leaving the frame it entered open.
memoryaccessNoExit(m, op, addr, callpc, pc, write, w) ==
    LET id == goid(G(m)) - 1
        args == [addr |-> addr, callpc |-> callpc, pc |-> pc, w |-> w]
    IN IF ~onstack(addr)
       THEN Enter(m, Forward(op, G(m), args,
                      (IF callpc # 0 THEN <<EvFuncEnter(id, resolvepc(callpc, w))>> ELSE <<>>)
                          \o (IF write THEN <<EvWrite(id, addr, pc)>>
                                       ELSE <<EvRead(id, addr, pc)>>)))
       ELSE Enter(m, Skip(op, G(m), args))

\* memoryaccess (race.c 157-179), entered as entry point op.
memoryaccess(m, op, addr, callpc, pc, write, w) ==
    LET id == goid(G(m)) - 1
        args == [addr |-> addr, callpc |-> callpc, pc |-> pc, w |-> w]
    IN IF ~onstack(addr)
       THEN Enter(m, Forward(op, G(m), args,
                      (IF callpc # 0 THEN <<EvFuncEnter(id, resolvepc(callpc, w))>> ELSE <<>>)
                          \o (IF write THEN <<EvWrite(id, addr, pc)>>
                                       ELSE <<EvRead(id, addr, pc)>>)
                          \o (IF callpc # 0 THEN <<EvFuncExit(id)>> ELSE <<>>)))
       ELSE Enter(m, Skip(op, G(m), args))

\* rangeaccess (race.c 193-215), entered as entry point op.
rangeaccess(m, op, addr, size, step, callpc, pc, write, w) ==
    LET id == goid(G(m)) - 1
        args == [addr |-> addr, sz |-> size, step |-> step,
                 callpc |-> callpc, pc |-> pc, w |-> w]
    IN IF ~onstack(addr)
       THEN Enter(m, Forward(op, G(m), args,
                      (IF callpc # 0 THEN <<EvFuncEnter(id, resolvepc(callpc, w))>> ELSE <<>>)
                          \o (IF write THEN <<EvWriteRange(id, addr, size, step, pc)>>
                                       ELSE <<EvReadRange(id, addr, size, step, pc)>>)
                          \o (IF callpc # 0 THEN <<EvFuncExit(id)>> ELSE <<>>)))
       ELSE Enter(m, Skip(op, G(m), args))

\* raceacquireg consulting the ignore-depth of gp, not of g.
raceacquiregBodyOfGp(m, op, gp, addr) ==
    IF raceignore[gp] # 0
    THEN Enter(m, Skip(op, G(m), [gp |-> gp, addr |-> addr]))
    ELSE Enter(m, Forward(op, G(m), [gp |-> gp, addr |-> addr],
                   <<EvAcquire(goid(gp) - 1, addr)>>))

raceacquiregBody(m, op, gp, addr) ==
    IF raceignore[G(m)] # 0
    THEN Enter(m, Skip(op, G(m), [gp |-> gp, addr |-> addr]))
    ELSE Enter(m, Forward(op, G(m), [gp |-> gp, addr |-> addr],
                   <<EvAcquire(goid(gp) - 1, addr)>>))

racereleasegBody(m, op, gp, addr) ==
    IF raceignore[G(m)] # 0
    THEN Enter(m, Skip(op, G(m), [gp |-> gp, addr |-> addr]))
    ELSE Enter(m, Forward(op, G(m), [gp |-> gp, addr |-> addr],
                   <<EvRelease(goid(gp) - 1, addr)>>))

racereleasemergegBody(m, op, gp, addr) ==
    IF raceignore[G(m)] # 0
    THEN Enter(m, Skip(op, G(m), [gp |-> gp, addr |-> addr]))
    ELSE Enter(m, Forward(op, G(m), [gp |-> gp, addr |-> addr],
                   <<EvReleaseMerge(goid(gp) - 1, addr)>>))

racefingoBody(m) ==
    Enter(m, Forward("racefingo", G(m), [none |-> 0],
               <<EvFinalizerGoroutine(goid(G(m)) - 1)>>))

RaceDisableBody(m) ==
    /\ raceignore' = [raceignore EXCEPT ![G(m)] = @ + 1]
    /\ Enter(m, Skip("RaceDisable", G(m), [none |-> 0]))

\* RaceEnable switching the events back on at once.
RaceEnableBodyReset(m) ==
    /\ raceignore' = [raceignore EXCEPT ![G(m)] = 0]
    /\ Enter(m, Skip("RaceEnable", G(m), [none |-> 0]))

RaceEnableBody(m) ==
    /\ raceignore' = [raceignore EXCEPT ![G(m)] = @ - 1]
    /\ Enter(m, Skip("RaceEnable", G(m), [none |-> 0]))

(* ------------------------------ actions ------------------------------- *)
\* The runtime calls raceinit once, on its first thread, before any task runs.
raceinit(m) ==
    /\ phase = "boot" /\ Idle(m) /\ m = 1
    /\ raceinitBody(m)
    /\ Frm

\* The runtime calls racefini when the process exits.
racefini(m) ==
    /\ Running(m)
    /\ racefiniBody(m)
    /\ phase' = "fini"
    /\ UNCHANGED <<arena_used, curg, raceignore, calls, nDis, nEn>>

racemapshadow(m) ==
    /\ Running(m)
    /\ racemapshadowBody(m, arena_start, ArenaInit)
    /\ Frm

racewrite(m) ==
    /\ Running(m) /\ UserG(m)
    /\ \E addr \in AccessAddrs, cpc \in ReturnPCs : racewriteBody(m, addr, cpc)
    /\ Frm

raceread(m) ==
    /\ Running(m) /\ UserG(m)
    /\ \E addr \in AccessAddrs, cpc \in ReturnPCs : racereadBody(m, addr, cpc)
    /\ Frm

racefuncenter(m) ==
    /\ Running(m) /\ UserG(m)
    /\ \E pc \in EnterPCs, w \in UnwoundPCs : racefuncenterBody(m, pc, w)
    /\ Frm

racefuncexit(m) ==
    /\ Running(m) /\ UserG(m)
    /\ racefuncexitBody(m)
    /\ Frm

\* The allocator runs on the task's stack or, for stackalloc, on g0.
racemalloc(m) ==
    /\ Running(m)
    /\ \E p \in AllocAddrs, gp \in {g0, curg[m]} : racemallocBody(m, gp, p, 1, TextA)
    /\ Frm

racefree(m) ==
    /\ Running(m)
    /\ \E gp \in {g0, curg[m]} : racefreeBody(m, gp, arena_start)
    /\ Frm

racegostart(m) ==
    /\ Running(m) /\ UserG(m)
    /\ \E id \in Tasks : racegostartBody(m, id, TextA)
    /\ Frm

racegoend(m) ==
    /\ Running(m) /\ UserG(m)
    /\ \E id \in Tasks : racegoendBody(m, id)
    /\ Frm

racewritepc(m) ==
    /\ Running(m) /\ UserG(m)
    /\ \E addr \in AccessAddrs, callpc \in {0, lessstack}, w \in UnwoundPCs :
           memoryaccess(m, "racewritepc", addr, callpc, TextA, TRUE, w)
    /\ Frm

racereadpc(m) ==
    /\ Running(m) /\ UserG(m)
    /\ \E addr \in AccessAddrs, callpc \in CallerPCs, w \in UnwoundPCs :
           memoryaccess(m, "racereadpc", addr, callpc, TextA, FALSE, w)
    /\ Frm

racewriterangepc(m) ==
    /\ Running(m) /\ UserG(m)
    /\ \E addr \in RangeAddrs, sz \in RangeSizes, callpc \in {0, arena_start},
          w \in UnwoundPCs :
           rangeaccess(m, "racewriterangepc", addr, sz, 1, callpc, TextA, TRUE, w)
    /\ Frm

racereadrangepc(m) ==
    /\ Running(m) /\ UserG(m)
    /\ \E addr \in RangeAddrs, sz \in RangeSizes, callpc \in CallerPCs, w \in UnwoundPCs :
           rangeaccess(m, "racereadrangepc", addr, sz, 1, callpc, TextA, FALSE, w)
    /\ Frm

\* raceacquire(addr) is raceacquireg(g, addr).
raceacquire(m) ==
    /\ Running(m) /\ UserG(m)
    /\ \E addr \in SyncAddrs : raceacquiregBody(m, "raceacquire", G(m), addr)
    /\ Frm

raceacquireg(m) ==
    /\ Running(m) /\ UserG(m)
    /\ \E gp \in Tasks : raceacquiregBody(m, "raceacquireg", gp, arena_start)
    /\ Frm

racerelease(m) ==
    /\ Running(m) /\ UserG(m)
    /\ \E addr \in SyncAddrs : racereleasegBody(m, "racerelease", G(m), addr)
    /\ Frm

racereleaseg(m) ==
    /\ Running(m) /\ UserG(m)
    /\ \E gp \in Tasks : racereleasegBody(m, "racereleaseg", gp, arena_start)
    /\ Frm

racereleasemerge(m) ==
    /\ Running(m) /\ UserG(m)
    /\ \E addr \in SyncAddrs : racereleasemergegBody(m, "racereleasemerge", G(m), addr)
    /\ Frm

racereleasemergeg(m) ==
    /\ Running(m) /\ UserG(m)
    /\ \E gp \in Tasks : racereleasemergegBody(m, "racereleasemergeg", gp, arena_start)
    /\ Frm

racefingo(m) ==
    /\ Running(m) /\ UserG(m)
    /\ racefingoBody(m)
    /\ Frm

\* RaceAcquire(addr) is raceacquire(addr), and so on.
RaceAcquire(m) ==
    /\ Running(m) /\ UserG(m)
    /\ raceacquiregBody(m, "RaceAcquire", G(m), StackAddr)
    /\ Frm

RaceRelease(m) ==
    /\ Running(m) /\ UserG(m)
    /\ racereleasegBody(m, "RaceRelease", G(m), StackAddr)
    /\ Frm

RaceReleaseMerge(m) ==
    /\ Running(m) /\ UserG(m)
    /\ racereleasemergegBody(m, "RaceReleaseMerge", G(m), StackAddr)
    /\ Frm

RaceRead(m) ==
    /\ Running(m) /\ UserG(m)
    /\ \E addr \in AccessAddrs, w \in UnwoundPCs :
           memoryaccess(m, "RaceRead", addr, 0, TextB, FALSE, w)
    /\ Frm

RaceWrite(m) ==
    /\ Running(m) /\ UserG(m)
    /\ \E addr \in AccessAddrs, w \in UnwoundPCs :
           memoryaccess(m, "RaceWrite", addr, 0, TextB, TRUE, w)
    /\ Frm

RaceDisable(m) ==
    /\ Running(m) /\ UserG(m)
    /\ nDis[1] + nDis[2] < MaxNest
    /\ RaceDisableBody(m)
    /\ nDis' = [nDis EXCEPT ![G(m)] = @ + 1]
    /\ UNCHANGED <<phase, arena_used, curg, calls, nEn>>

RaceEnable(m) ==
    /\ Running(m) /\ UserG(m)
    /\ nEn[1] + nEn[2] < MaxNest
    /\ RaceEnableBody(m)
    /\ nEn' = [nEn EXCEPT ![G(m)] = @ + 1]
    /\ UNCHANGED <<phase, arena_used, curg, calls, nDis>>

\* The innermost entry point of thread m makes its next detector call.
DetectorCall(m) ==
    /\ ~Idle(m)
    /\ ~Top(m).infl
    /\ Top(m).todo # <<>>
    /\ calls' = [calls EXCEPT ![m] = Append(@, Head(Top(m).todo))]
    /\ stack' = [stack EXCEPT ![m][Len(stack[m])] =
                     [@ EXCEPT !.todo = Tail(@), !.infl = TRUE]]
    /\ UNCHANGED <<phase, arena_used, curg, racecall, raceignore, nDis, nEn>>

\* The detector call in flight on thread m returns.
DetectorReturn(m) ==
    /\ ~Idle(m)
    /\ Top(m).infl
    /\ stack' = [stack EXCEPT ![m][Len(stack[m])] = [@ EXCEPT !.infl = FALSE]]
    /\ UNCHANGED <<phase, arena_used, curg, racecall, raceignore, calls, nDis, nEn>>

\* The innermost entry point of thread m returns to its caller.
Return(m) ==
    /\ ~Idle(m)
    /\ ~Top(m).infl
    /\ Top(m).todo = <<>>
    /\ racecall' = IF Top(m).clear THEN [racecall EXCEPT ![m] = FALSE] ELSE racecall
    /\ stack' = [stack EXCEPT ![m] = SubSeq(@, 1, Len(@) - 1)]
    /\ calls' = IF Len(stack[m]) = 1 THEN [calls EXCEPT ![m] = <<>>] ELSE calls
    /\ phase' = IF Top(m).op = "raceinit" THEN "run" ELSE phase
    /\ UNCHANGED <<arena_used, curg, raceignore, nDis, nEn>>

(* --------------------------- environment ------------------------------ *)
\* The scheduler puts a task that runs nowhere on a thread without one.
Execute(m) ==
    /\ Running(m) /\ curg[m] = nil
    /\ \E t \in Tasks :
           /\ \A o \in Threads : curg[o] # t
           /\ curg' = [curg EXCEPT ![m] = t]
    /\ UNCHANGED <<phase, arena_used, racecall, raceignore, stack, calls, nDis, nEn>>

\* The task of thread m is descheduled.
Park(m) ==
    /\ Running(m) /\ curg[m] # nil
    /\ curg' = [curg EXCEPT ![m] = nil]
    /\ UNCHANGED <<phase, arena_used, racecall, raceignore, stack, calls, nDis, nEn>>

\* The heap grows: the allocator moves the watermark up.
GrowArena ==
    /\ phase = "run"
    /\ arena_used < arena_start + ArenaCap
    /\ arena_used' = arena_used + 1
    /\ UNCHANGED <<phase, curg, racecall, raceignore, stack, calls, nDis, nEn>>

\* A detector call in flight for a task on thread m performs an instrumented
\* access.
DetectorProbe(m) ==
    /\ ~Idle(m)
    /\ UserG(m)
    /\ Top(m).infl
    /\ Len(calls[m]) < MaxCalls
    /\ \E addr \in {arena_start, StackAddr} :
           racereadBody(m, addr, TextA) \/ racewriteBody(m, addr, TextA)
    /\ Frm

(* --------------------------- specification ---------------------------- *)
Init ==
    /\ phase = "boot"
    /\ arena_used = arena_start + ArenaInit
    /\ curg = [m \in Threads |-> nil]
    /\ racecall = [m \in Threads |-> FALSE]
    /\ raceignore = [t \in Tasks |-> 0]
    /\ stack = [m \in Threads |-> <<>>]
    /\ calls = [m \in Threads |-> <<>>]
    /\ nDis = [t \in Tasks |-> 0]
    /\ nEn = [t \in Tasks |-> 0]

\* The detector engine is opaque: its calls return without entering the bridge.
Next ==
    \/ \E m \in Threads :
           \/ raceinit(m) \/ racefini(m) \/ racemapshadow(m)
           \/ racewrite(m) \/ raceread(m)
           \/ racefuncenter(m) \/ racefuncexit(m)
           \/ racemalloc(m) \/ racefree(m) \/ racegostart(m) \/ racegoend(m)
           \/ racewritepc(m) \/ racereadpc(m)
           \/ racewriterangepc(m) \/ racereadrangepc(m)
           \/ raceacquire(m) \/ raceacquireg(m)
           \/ racerelease(m) \/ racereleaseg(m)
           \/ racereleasemerge(m) \/ racereleasemergeg(m)
           \/ racefingo(m)
           \/ RaceAcquire(m) \/ RaceRelease(m) \/ RaceReleaseMerge(m)
           \/ RaceRead(m) \/ RaceWrite(m)
           \/ RaceDisable(m) \/ RaceEnable(m)
           \/ DetectorCall(m) \/ DetectorReturn(m) \/ Return(m)
           \/ Execute(m) \/ Park(m)
    \/ GrowArena

Spec == Init /\ [][Next]_vars

\* A detector whose calls perform instrumented accesses of their own, under
\* the memory-access entry points.
NextReentrant ==
    \/ \E m \in Threads :
           \/ raceinit(m)
           \/ racewrite(m) \/ raceread(m)
           \/ racewritepc(m) \/ racereadpc(m)
           \/ DetectorCall(m) \/ DetectorReturn(m) \/ Return(m)
           \/ Execute(m) \/ Park(m)
           \/ DetectorProbe(m)
    \/ GrowArena

SpecReentrant == Init /\ [][NextReentrant]_vars

(* ----------------------- concurrent threads --------------------------- *)
\* Thread m may enter the bridge whatever the other threads are doing.
Ready(m) == phase = "run" /\ Idle(m)

racereadConc(m) ==
    /\ Ready(m) /\ UserG(m)
    /\ \E addr \in {arena_start, StackAddr} : racereadBody(m, addr, TextA)
    /\ Frm

racewriteConc(m) ==
    /\ Ready(m) /\ UserG(m)
    /\ \E addr \in {arena_start, StackAddr} : racewriteBody(m, addr, TextA)
    /\ Frm

RaceDisableConc(m) ==
    /\ Ready(m) /\ UserG(m)
    /\ nDis[1] + nDis[2] < MaxNest
    /\ RaceDisableBody(m)
    /\ nDis' = [nDis EXCEPT ![G(m)] = @ + 1]
    /\ UNCHANGED <<phase, arena_used, curg, calls, nEn>>

RaceEnableConc(m) ==
    /\ Ready(m) /\ UserG(m)
    /\ nEn[1] + nEn[2] < MaxNest
    /\ RaceEnableBody(m)
    /\ nEn' = [nEn EXCEPT ![G(m)] = @ + 1]
    /\ UNCHANGED <<phase, arena_used, curg, calls, nDis>>

ExecuteConc(m) ==
    /\ Ready(m) /\ curg[m] = nil
    /\ \E t \in Tasks :
           /\ \A o \in Threads : curg[o] # t
           /\ curg' = [curg EXCEPT ![m] = t]
    /\ UNCHANGED <<phase, arena_used, racecall, raceignore, stack, calls, nDis, nEn>>

ParkConc(m) ==
    /\ Ready(m) /\ curg[m] # nil
    /\ curg' = [curg EXCEPT ![m] = nil]
    /\ UNCHANGED <<phase, arena_used, racecall, raceignore, stack, calls, nDis, nEn>>

\* The threads run raceread, racewrite, RaceDisable and RaceEnable at the same
\* time, their steps interleaved.
NextConc ==
    \E m \in Threads :
        \/ raceinit(m)
        \/ racereadConc(m) \/ racewriteConc(m)
        \/ RaceDisableConc(m) \/ RaceEnableConc(m)
        \/ DetectorCall(m) \/ DetectorReturn(m) \/ Return(m)
        \/ ExecuteConc(m) \/ ParkConc(m)

SpecConc == Init /\ [][NextConc]_vars

(* ------------------------------ claims -------------------------------- *)
\* The detector calls of the entry point thread m is in: made and to make.
Issued(m) == calls[m] \o Top(m).todo
\* The entry point thread m is in has made its detector calls.
Done(m) == ~Idle(m) /\ Top(m).todo = <<>> /\ ~Top(m).infl
\* The external identifier of the task that called the entry point.
Ext(m) == Top(m).g - 1
\* Address a lies outside both tracked regions, the arena ending at used.
Untracked(a, used) ==
    /\ ~(noptrdata <= a /\ a < enoptrbss)
    /\ ~(arena_start <= a /\ a < used)

AccessOps == {"raceread", "racewrite", "RaceRead", "RaceWrite", "racereadpc",
              "racewritepc", "racereadrangepc", "racewriterangepc"}
PcOps == {"racereadpc", "racewritepc"}
RangeOps == {"racereadrangepc", "racewriterangepc"}
OwnSyncOps == {"raceacquire", "racerelease", "racereleasemerge"}
SyncOps == {"raceacquire", "racerelease", "racereleasemerge",
            "raceacquireg", "racereleaseg", "racereleasemergeg",
            "RaceAcquire", "RaceRelease", "RaceReleaseMerge"}
\* The detector call a synchronisation entry point stands for.
SyncFn(op) ==
    IF op \in {"raceacquire", "raceacquireg", "RaceAcquire"} THEN "Acquire"
    ELSE IF op \in {"racerelease", "racereleaseg", "RaceRelease"} THEN "Release"
    ELSE "ReleaseMerge"

\* C1: a memory-access entry point called with an address outside the static
\* data segment and outside the arena [arena_start, arena_used) makes no
\* detector call at all: no access event, no FuncEnter, no FuncExit.
C1_UntrackedNeverForwarded ==
    \A m \in Threads :
        (/\ ~Idle(m)
         /\ Top(m).op \in AccessOps
         /\ Untracked(Top(m).args.addr, Top(m).used))
            => Issued(m) = <<>>

\* C1 witness: racereadpc returned nothing for a stack address and a caller
\* program counter that is not zero.
C1_Witness ==
    \E m \in Threads :
        /\ Done(m)
        /\ Top(m).op = "racereadpc"
        /\ Top(m).args.addr = StackAddr
        /\ Top(m).args.callpc # 0
        /\ calls[m] = <<>>

\* C2: raceread or racewrite of an address in [arena_start, arena_used) by the
\* task with internal identifier id makes exactly one detector call, Read for
\* raceread and Write for racewrite, with identifier id - 1 and that address.
C2_ArenaAccessForwardedOnce ==
    \A m \in Threads :
        (/\ ~Idle(m)
         /\ Top(m).op \in {"raceread", "racewrite"}
         /\ arena_start <= Top(m).args.addr
         /\ Top(m).args.addr < Top(m).used)
            => /\ Len(Issued(m)) = 1
               /\ Issued(m)[1].fn = (IF Top(m).op = "raceread" THEN "Read" ELSE "Write")
               /\ Issued(m)[1].goid = Top(m).g - 1
               /\ Issued(m)[1].addr = Top(m).args.addr

\* C2 witness: task 2 has read an address the arena grew over, and the
\* detector received one Read for it.
C2_Witness ==
    \E m \in Threads :
        /\ Done(m)
        /\ Top(m).op = "raceread"
        /\ Top(m).g = 2
        /\ Top(m).args.addr = Frontier
        /\ calls[m] = <<EvRead(1, Frontier, Top(m).args.pc)>>

\* C3: on every carrier thread at most one detector call is in flight: an
\* instrumented access made by a detector call in flight is skipped.
C3_NoNestedDetectorCall ==
    \A m \in Threads :
        Cardinality({i \in 1..Len(stack[m]) : stack[m][i].infl}) <= 1

\* C4: m->racecall is true exactly while the thread is inside an entry point
\* that forwards to the detector, from before its first detector call until
\* after its last one returned; it is false outside the bridge and inside an
\* entry point that forwards nothing.
C4_FlagExactlyWhileForwarding ==
    \A m \in Threads :
        /\ racecall[m] <=> (~Idle(m) /\ Issued(m) # <<>>)
        /\ (~Idle(m) /\ Top(m).infl) => racecall[m]

\* C4 witness: the last MapShadow call of raceinit is in flight with the flag set.
C4_Witness ==
    \E m \in Threads :
        /\ ~Idle(m)
        /\ Top(m).op = "raceinit"
        /\ Top(m).infl
        /\ Len(calls[m]) = 3
        /\ Top(m).todo = <<>>
        /\ racecall[m]

\* C5: a task that has made N calls of RaceDisable and N calls of RaceEnable
\* has its raceacquire, racerelease or racereleasemerge forwarded, with its
\* identifier minus 1 and the address given; with N calls of RaceDisable and
\* N - 1 calls of RaceEnable it is not forwarded.
C5_NestingBalances ==
    \A m \in Threads :
        (~Idle(m) /\ Top(m).op \in OwnSyncOps)
            => LET t == Top(m).g
               IN /\ nDis[t] = nEn[t] =>
                         Issued(m) = <<[fn |-> SyncFn(Top(m).op), goid |-> t - 1,
                                        addr |-> Top(m).args.addr]>>
                  /\ nDis[t] = nEn[t] + 1 => Issued(m) = <<>>

\* C5 witness: after two calls of RaceDisable and two of RaceEnable a
\* racerelease of the task was forwarded.
C5_Witness ==
    \E m \in Threads :
        /\ Done(m)
        /\ Top(m).op = "racerelease"
        /\ nDis[Top(m).g] = MaxNest
        /\ nEn[Top(m).g] = MaxNest
        /\ calls[m] = <<EvRelease(Top(m).g - 1, Top(m).args.addr)>>

\* C6 as stated: while task T has an ignore-depth above zero no Acquire,
\* Release or ReleaseMerge carrying T's identifier is forwarded, whichever
\* task makes the call.
C6_SuppressedForTaskNamed ==
    \A m \in Threads :
        (/\ ~Idle(m)
         /\ Top(m).op \in SyncOps
         /\ raceignore[Top(m).args.gp] > 0)
            => Issued(m) = <<>>

\* C6 amended: the ignore-depth consulted is that of the calling task g.
\* While it is above zero none of g's calls is forwarded, whichever gp they
\* name; while it is zero the call is forwarded with gp's identifier minus 1,
\* whatever the ignore-depth of gp.
C6_SuppressedForCaller ==
    \A m \in Threads :
        (~Idle(m) /\ Top(m).op \in SyncOps)
            => /\ raceignore[Top(m).g] > 0 => Issued(m) = <<>>
               /\ raceignore[Top(m).g] = 0 =>
                      Issued(m) = <<[fn |-> SyncFn(Top(m).op),
                                     goid |-> Top(m).args.gp - 1,
                                     addr |-> Top(m).args.addr]>>

\* C6 witness: a task with ignore-depth zero called raceacquireg for a task
\* whose ignore-depth is above zero, and the Acquire was forwarded.
C6_Witness ==
    \E m \in Threads :
        /\ Done(m)
        /\ Top(m).op = "raceacquireg"
        /\ Top(m).args.gp # Top(m).g
        /\ raceignore[Top(m).args.gp] > 0
        /\ raceignore[Top(m).g] = 0
        /\ calls[m] = <<EvAcquire(Top(m).args.gp - 1, Top(m).args.addr)>>

\* The access event of a memoryaccess or rangeaccess entry point.
AccessEvent(fr) ==
    IF fr.op = "racereadpc" THEN EvRead(fr.g - 1, fr.args.addr, fr.args.pc)
    ELSE IF fr.op = "racewritepc" THEN EvWrite(fr.g - 1, fr.args.addr, fr.args.pc)
    ELSE IF fr.op = "racereadrangepc"
         THEN EvReadRange(fr.g - 1, fr.args.addr, fr.args.sz, fr.args.step, fr.args.pc)
    ELSE EvWriteRange(fr.g - 1, fr.args.addr, fr.args.sz, fr.args.step, fr.args.pc)

\* C7: for a tracked address, racereadpc, racewritepc, racereadrangepc and
\* racewriterangepc with a caller program counter that is not zero make three
\* detector calls in this order, FuncEnter, the access with addr and pc,
\* FuncExit, with one task identifier and m->racecall true from before the
\* first until after the last; with a zero caller program counter they make
\* the access call alone.
C7_EnterAccessExit ==
    \A m \in Threads :
        (/\ ~Idle(m)
         /\ Top(m).op \in PcOps \cup RangeOps
         /\ ~Untracked(Top(m).args.addr, Top(m).used))
            => /\ racecall[m]
               /\ IF Top(m).args.callpc # 0
                  THEN /\ Len(Issued(m)) = 3
                       /\ Issued(m)[1].fn = "FuncEnter"
                       /\ Issued(m)[1].goid = Top(m).g - 1
                       /\ Issued(m)[2] = AccessEvent(Top(m))
                       /\ Issued(m)[3] = EvFuncExit(Top(m).g - 1)
                  ELSE Issued(m) = <<AccessEvent(Top(m))>>

\* C7 witness: racewritepc of an arena address with the trampoline as caller
\* has made its three calls.
C7_Witness ==
    \E m \in Threads :
        /\ Done(m)
        /\ Top(m).op = "racewritepc"
        /\ Top(m).args.addr = arena_start
        /\ Top(m).args.callpc = lessstack
        /\ Len(calls[m]) = 3
        /\ racecall[m]

\* C8: the program counter of a forwarded FuncEnter is the address the stack
\* walker returned when the captured one is runtime.lessstack or lies in
\* [arena_start, arena_used), and the captured one in every other case.
C8_FuncEnterResolved ==
    \A m \in Threads :
        (/\ ~Idle(m)
         /\ Top(m).op \in {"racefuncenter"} \cup PcOps \cup RangeOps
         /\ Issued(m) # <<>>
         /\ Issued(m)[1].fn = "FuncEnter")
            => LET cap == Top(m).args.callpc
               IN Issued(m)[1].pc =
                      (IF cap = lessstack \/ (arena_start <= cap /\ cap < Top(m).used)
                       THEN Top(m).args.w
                       ELSE cap)

\* C8 witness: racefuncenter was called from a closure trampoline in the
\* arena and forwarded the address the stack walker returned.
C8_Witness ==
    \E m \in Threads :
        /\ Done(m)
        /\ Top(m).op = "racefuncenter"
        /\ Top(m).args.callpc = arena_start
        /\ calls[m] = <<EvFuncEnter(Top(m).g - 1, Top(m).args.w)>>
        /\ Top(m).args.w # Top(m).args.callpc

\* C9: racemalloc on a thread without a current user task makes no detector
\* call and leaves m->racecall as it was; on a thread whose current user task
\* has identifier id it makes one Malloc call with id - 1, p, sz and pc,
\* whatever the address p.
C9_MallocNeedsTask ==
    \A m \in Threads :
        (~Idle(m) /\ Top(m).op = "racemalloc")
            => IF curg[m] = nil
               THEN Issued(m) = <<>> /\ ~racecall[m]
               ELSE Issued(m) = <<EvMalloc(curg[m] - 1, Top(m).args.p,
                                           Top(m).args.sz, Top(m).args.pc)>>

\* C9 witness: racemalloc returned nothing on a thread without a user task.
C9_Witness ==
    \E m \in Threads :
        /\ Done(m)
        /\ Top(m).op = "racemalloc"
        /\ curg[m] = nil
        /\ calls[m] = <<>>
        /\ ~racecall[m]

\* C10 as stated: racefree on a thread without a current user task makes no
\* Free call.
C10_FreeNeedsTask ==
    \A m \in Threads :
        (~Idle(m) /\ Top(m).op = "racefree" /\ curg[m] = nil)
            => Issued(m) = <<>>

\* C10 amended: racefree(p) makes exactly one Free(p) call, on a thread with
\* a current user task and on a thread without one.
C10_FreeAlwaysForwarded ==
    \A m \in Threads :
        (~Idle(m) /\ Top(m).op = "racefree")
            => Issued(m) = <<EvFree(Top(m).args.p)>>

\* C10 witness: racefree made its Free call on a thread without a user task.
C10_Witness ==
    \E m \in Threads :
        /\ Done(m)
        /\ Top(m).op = "racefree"
        /\ curg[m] = nil
        /\ calls[m] = <<EvFree(Top(m).args.p)>>

\* C11: the watermark an entry point classified its address with may be older
\* than the current one, since other threads grow the arena meanwhile.  Every
\* address a memory-access entry point forwards lies in the static segment or
\* in [arena_start, arena_used) under the current watermark as well: the
\* watermark read is never above the current one.
C11_StaleWatermarkStillTracked ==
    \A m \in Threads :
        (/\ ~Idle(m)
         /\ Top(m).op \in AccessOps
         /\ Issued(m) # <<>>)
            => /\ Top(m).used <= arena_used
               /\ ~Untracked(Top(m).args.addr, arena_used)

\* C11 witness: the arena grew after racewrite read the watermark, and its
\* Write of an arena address has reached the detector.
C11_Witness ==
    \E m \in Threads :
        /\ Done(m)
        /\ Top(m).op = "racewrite"
        /\ Top(m).used < arena_used
        /\ Top(m).args.addr = arena_start
        /\ calls[m] = <<EvWrite(Top(m).g - 1, arena_start, Top(m).args.pc)>>

\* The entry points whose detector call is attributed to the calling task g.
OwnIdOps == AccessOps \cup {"racefuncenter", "racefuncexit", "racefingo"}

\* C12: every detector call that carries a task identifier carries the
\* internal identifier minus 1 of the task it is attributed to: g for the
\* accesses, FuncEnter, FuncExit and FinalizerGoroutine, m->curg for Malloc, gp
\* for Acquire, Release and ReleaseMerge, g as parent and the goid argument as
\* child for GoStart, the goid argument for GoEnd.  racegostart and racegoend
\* make their call whatever the ignore-depth.
C12_IdentifierMinusOne ==
    \A m \in Threads :
        ~Idle(m) =>
            LET fr == Top(m)
                ev == Issued(m)
            IN /\ fr.op \in OwnIdOps =>
                      \A i \in 1..Len(ev) : ev[i].goid = fr.g - 1
               /\ fr.op = "racemalloc" =>
                      \A i \in 1..Len(ev) : ev[i].goid = curg[m] - 1
               /\ fr.op \in SyncOps =>
                      \A i \in 1..Len(ev) : ev[i].goid = fr.args.gp - 1
               /\ fr.op = "racegostart" =>
                      ev = <<[fn |-> "GoStart", goid |-> fr.g - 1,
                              child |-> fr.args.goid - 1, pc |-> fr.args.pc]>>
               /\ fr.op = "racegoend" =>
                      ev = <<[fn |-> "GoEnd", goid |-> fr.args.goid - 1]>>

\* C12 witness: a task with ignore-depth above zero started another task, and
\* GoStart reached the detector with both identifiers minus 1.
C12_Witness ==
    \E m \in Threads :
        /\ Done(m)
        /\ Top(m).op = "racegostart"
        /\ raceignore[Top(m).g] > 0
        /\ Top(m).args.goid # Top(m).g
        /\ calls[m] = <<EvGoStart(Top(m).g - 1, Top(m).args.goid - 1, Top(m).args.pc)>>

\* C13: the ignore-depth of every task is zero or more in every reachable
\* state, also after RaceEnable called at depth zero.
C13_IgnoreDepthNonNegative ==
    \A t \in Tasks : raceignore[t] >= 0

\* C14: with several threads inside the bridge at once, a step leaves
\* m->racecall of every thread other than the one taking it as it was, and
\* the ignore-depth changes only for the task that is entering RaceDisable or
\* RaceEnable on its thread.
C14_FlagAndDepthPerThread ==
    [][/\ \A m \in Threads :
              stack'[m] = stack[m] => racecall'[m] = racecall[m]
       /\ \A t \in Tasks :
              raceignore'[t] # raceignore[t] =>
                  \E m \in Threads :
                      /\ curg[m] = t
                      /\ Len(stack'[m]) = Len(stack[m]) + 1
                      /\ stack'[m][Len(stack'[m])].op \in {"RaceDisable", "RaceEnable"}]_vars

\* C14 witness: the Read of one thread is in flight with its flag set while
\* the other thread, its flag clear, is inside RaceDisable; only the task of
\* the second has an ignore-depth above zero.
C14_Witness ==
    \E m \in Threads : \E o \in Threads \ {m} :
        /\ ~Idle(m) /\ ~Idle(o)
        /\ Top(m).op = "raceread" /\ Top(m).infl
        /\ racecall[m]
        /\ Top(o).op = "RaceDisable"
        /\ ~racecall[o]
        /\ raceignore[curg[o]] = 1
        /\ raceignore[curg[m]] = 0

\* The addresses of the static data segment that the MapShadow calls evs cover.
Shadowed(evs) ==
    {a \in noptrdata..(enoptrbss - 1) :
         \E i \in 1..Len(evs) : evs[i].addr <= a /\ a < evs[i].addr + evs[i].size}

\* C15: once raceinit has returned, every address of the static data segment
\* [noptrdata, enoptrbss) for which an access is forwarded lies in a range
\* that raceinit passed to MapShadow.
C15_StaticAccessShadowed ==
    \A m \in Threads :
        (/\ phase = "run"
         /\ ~Idle(m)
         /\ Top(m).op \in AccessOps
         /\ Issued(m) # <<>>
         /\ noptrdata <= Top(m).args.addr
         /\ Top(m).args.addr < enoptrbss)
            => Top(m).args.addr \in Shadowed(raceinitMaps)

\* C16: raceacquire, racerelease, racereleasemerge and their variants make no
\* detector call exactly when the ignore-depth consulted is above zero; at
\* depth zero or below the call is made.
C16_SuppressedIffPositive ==
    \A m \in Threads :
        (~Idle(m) /\ Top(m).op \in SyncOps)
            => (Issued(m) = <<>> <=> raceignore[Top(m).g] > 0)

\* C17: every address of the range [addr, addr + size) of a forwarded
\* ReadRange or WriteRange lies in the static data segment or in the arena,
\* not its first address alone.
C17_WholeRangeTracked ==
    \A m \in Threads :
        (/\ ~Idle(m)
         /\ Top(m).op \in RangeOps
         /\ Issued(m) # <<>>)
            => \A a \in Top(m).args.addr..(Top(m).args.addr + Top(m).args.sz - 1) :
                   ~Untracked(a, Top(m).used)

\* The entry points that make their detector call on every call.
AlwaysOps == {"racefuncenter", "racefuncexit", "racefree", "racegostart", "racegoend"}

\* Thread m enters RaceDisable or RaceEnable in this step.
EntersToggle(m) ==
    /\ Len(stack'[m]) = Len(stack[m]) + 1
    /\ stack'[m][Len(stack'[m])].op \in {"RaceDisable", "RaceEnable"}

\* C18: RaceDisable and RaceEnable add 1 to, or take 1 from, the ignore-depth
\* of the calling task alone, make no detector call and leave m->racecall as
\* it was; no other step changes an ignore-depth.  The ignore-depth gates the
\* synchronisation entry points alone: the accesses are forwarded exactly for
\* a tracked address, racemalloc exactly on a thread with a user task,
\* racefuncenter, racefuncexit, racefree, racegostart and racegoend always,
\* whether the depth is zero or not.
C18_IgnoreDepthFrame ==
    [][/\ \A t \in Tasks :
              raceignore'[t] # raceignore[t] =>
                  \E m \in Threads :
                      /\ curg[m] = t
                      /\ EntersToggle(m)
                      /\ raceignore'[t] =
                             raceignore[t]
                                 + (IF stack'[m][Len(stack'[m])].op = "RaceDisable"
                                    THEN 1 ELSE -1)
       /\ \A m \in Threads :
              EntersToggle(m) =>
                  /\ racecall' = racecall
                  /\ calls' = calls
                  /\ stack'[m][Len(stack'[m])].todo = <<>>
                  /\ raceignore'[curg[m]] # raceignore[curg[m]]
       /\ \A m \in Threads :
              stack'[m] # <<>> =>
                  LET fr == stack'[m][Len(stack'[m])]
                      ev == calls'[m] \o fr.todo
                  IN /\ fr.op \in AccessOps =>
                            (ev # <<>> <=> ~Untracked(fr.args.addr, fr.used))
                     /\ fr.op = "racemalloc" => (ev # <<>> <=> curg'[m] # nil)
                     /\ fr.op \in AlwaysOps => ev # <<>>]_vars

\* C18 witness: a task with ignore-depth above zero wrote an arena address
\* and the Write reached the detector.
C18_Witness ==
    \E m \in Threads :
        /\ Done(m)
        /\ Top(m).op = "racewrite"
        /\ raceignore[Top(m).g] > 0
        /\ Top(m).args.addr = arena_start
        /\ calls[m] = <<EvWrite(Top(m).g - 1, arena_start, Top(m).args.pc)>>

====
